---- MODULE Spec2Model ----
(***************************************************************************)
(* Model of the insurance document validator: the rule engine of           *)
(* validation.py (DocumentValidator) and the /validate endpoint of main.py.*)
(*                                                                         *)
(* Conventions.  A Python str is a sequence of one-character strings, so   *)
(* that strip() and list membership are computed and not assumed.  An      *)
(* Optional[T] is a sequence of length 0 (None) or 1 (the value), so that  *)
(* None, "" and "   " stay three different values.  A datetime.date is a   *)
(* record [year, month, day].                                              *)
(***************************************************************************)
EXTENDS Integers, Sequences, FiniteSets, TLC

VARIABLES
    api_key,            \* os.getenv("GEMINI_API_KEY") is set (ai_extractor.py:59)
    vessels_file,       \* what provided_assets/valid_vessels.json holds on disk
    started,            \* module initialisation of main.py has run
    ai_extractor,       \* main.py global: "unset", "None" or "ready"
    document_validator, \* main.py global: "unset", "None" or "ready"
    valid_vessels,      \* DocumentValidator.valid_vessels (a list of str)
    load_count,         \* how many times _load_valid_vessels has run
    req,                \* per request: the locals of validate_document
    health,             \* what GET / last answered: "none" or "running"
    record,             \* the ExtractedData handed to the validator directly
    call,               \* the last method called directly on the validator
    ret,                \* what that call returned (a list of ValidationResult)
    first,              \* the report of the first validate_all(record)
    between             \* validate_all ran on another record since `first`

vars == <<api_key, vessels_file, started, ai_extractor, document_validator,
          valid_vessels, load_count, req, health, record, call, ret, first,
          between>>

service_vars ==
    <<api_key, vessels_file, started, ai_extractor, load_count, req, health>>

----------------------------------------------------------------------------
(* Bounds *)

\* longest str (in characters) drawn for a vessel name or policy number
MaxStrLen == 1
\* number of /validate requests in flight
NumRequests == 2

----------------------------------------------------------------------------
(* Values *)

None == <<>>
Some(x) == <<x>>
IsNone(o) == Len(o) = 0
Val(o) == o[1]

\* str.strip() removes these characters (and the other Unicode whitespace)
Whitespace == {" ", "\t", "\n"}
\* characters of the vessel names drawn: whitespace, and a letter in both cases
Chars == {" ", "A", "a"}
\* characters of the policy numbers drawn
PolicyChars == {" ", "A"}

RECURSIVE StringsOfLen(_, _)
StringsOfLen(chars, n) ==
    IF n = 0 THEN {<<>>}
    ELSE {Append(s, c) : s \in StringsOfLen(chars, n - 1), c \in chars}

StringsOver(chars) == UNION {StringsOfLen(chars, n) : n \in 0..MaxStrLen}

\* approved names with surrounding whitespace, beside the bounded strings
PaddedNames == {<<" ", "A">>, <<"A", " ">>, <<" ", "A", " ">>, <<"A", "a">>}

VesselNames == StringsOver(Chars) \cup PaddedNames

PolicyNumbers == StringsOver(PolicyChars)

Date(y, m, d) == [year |-> y, month |-> m, day |-> d]

\* the dates of test_comprehensive.py:68-92, 263 and 270
Dates == {Date(2025, 1, 1), Date(2025, 1, 2), Date(2025, 12, 31), Date(2026, 1, 1)}

\* values on both sides of zero (test_comprehensive.py:106 and 113) and a large
\* one; a Python int does not overflow
Values == {-500, 0, 1, 5000000}

Opt(S) == {None} \cup {Some(x) : x \in S}

\* ExtractedData (models.py:21-43): every field independently Optional
Records ==
    [policy_number : Opt(PolicyNumbers),
     vessel_name : Opt(VesselNames),
     policy_start_date : Opt(Dates),
     policy_end_date : Opt(Dates),
     insured_value : Opt(Values)]

\* contents of valid_vessels.json when it is a JSON array
VesselLists ==
    { << <<"A", "a">>, <<"A">>, <<" ">> >>,
      <<>> }

----------------------------------------------------------------------------
(* str.strip() and the rules of validation.py *)

RECURSIVE lstrip(_)
lstrip(s) ==
    IF Len(s) = 0 THEN s
    ELSE IF Head(s) \in Whitespace THEN lstrip(Tail(s))
    ELSE s

RECURSIVE rstrip(_)
rstrip(s) ==
    IF Len(s) = 0 THEN s
    ELSE IF s[Len(s)] \in Whitespace THEN rstrip(SubSeq(s, 1, Len(s) - 1))
    ELSE s

strip(s) == rstrip(lstrip(s))

\* x in list
InList(x, list) == \E i \in 1..Len(list) : list[i] = x

\* datetime.date.__gt__: compares (year, month, day) lexicographically
date_gt(a, b) ==
    \/ a.year > b.year
    \/ a.year = b.year /\ a.month > b.month
    \/ a.year = b.year /\ a.month = b.month /\ a.day > b.day

ValidationResult(r, s, m) == [rule |-> r, status |-> s, message |-> m]

\* variant: end >= start passes (equal dates accepted)
validate_date_consistency_ge(start_date, end_date) ==
    IF IsNone(start_date) \/ IsNone(end_date)
    THEN ValidationResult("Date Consistency", "FAIL",
            <<"Both start and end dates must be present for validation.">>)
    ELSE IF ~date_gt(Val(start_date), Val(end_date))
    THEN ValidationResult("Date Consistency", "PASS",
            <<"Policy end date is after start date.">>)
    ELSE ValidationResult("Date Consistency", "FAIL",
            <<"Policy end date cannot be before the start date.">>)

validate_date_consistency(start_date, end_date) ==
    IF IsNone(start_date) \/ IsNone(end_date)
    THEN ValidationResult("Date Consistency", "FAIL",
            <<"Both start and end dates must be present for validation.">>)
    ELSE IF date_gt(Val(end_date), Val(start_date))
    THEN ValidationResult("Date Consistency", "PASS",
            <<"Policy end date is after start date.">>)
    ELSE ValidationResult("Date Consistency", "FAIL",
            <<"Policy end date cannot be before the start date.">>)

\* variant: zero passes
validate_insured_value_ge(insured_value) ==
    IF IsNone(insured_value)
    THEN ValidationResult("Value Check", "FAIL", <<"Insured value is missing.">>)
    ELSE IF Val(insured_value) >= 0
    THEN ValidationResult("Value Check", "PASS", <<"Insured value is valid.">>)
    ELSE ValidationResult("Value Check", "FAIL",
            <<"Insured value must be a positive number.">>)

validate_insured_value(insured_value) ==
    IF IsNone(insured_value)
    THEN ValidationResult("Value Check", "FAIL", <<"Insured value is missing.">>)
    ELSE IF Val(insured_value) > 0
    THEN ValidationResult("Value Check", "PASS", <<"Insured value is valid.">>)
    ELSE ValidationResult("Value Check", "FAIL",
            <<"Insured value must be a positive number.">>)

\* variant: the name is trimmed before it is looked up
validate_vessel_name_trimmed(self_valid_vessels, vessel_name) ==
    IF IsNone(vessel_name) \/ strip(Val(vessel_name)) = <<>>
    THEN ValidationResult("Vessel Name Match", "FAIL", <<"Vessel name is missing.">>)
    ELSE IF InList(strip(Val(vessel_name)), self_valid_vessels)
    THEN ValidationResult("Vessel Name Match", "PASS",
            <<"Vessel '", Val(vessel_name), "' is on the approved list.">>)
    ELSE ValidationResult("Vessel Name Match", "FAIL",
            <<"Vessel '", Val(vessel_name), "' is not on the approved list.">>)

validate_vessel_name(self_valid_vessels, vessel_name) ==
    IF IsNone(vessel_name) \/ strip(Val(vessel_name)) = <<>>
    THEN ValidationResult("Vessel Name Match", "FAIL", <<"Vessel name is missing.">>)
    ELSE IF InList(Val(vessel_name), self_valid_vessels)
    THEN ValidationResult("Vessel Name Match", "PASS",
            <<"Vessel '", Val(vessel_name), "' is on the approved list.">>)
    ELSE ValidationResult("Vessel Name Match", "FAIL",
            <<"Vessel '", Val(vessel_name), "' is not on the approved list.">>)

\* variant: the policy number is not trimmed before the emptiness test
validate_policy_number_untrimmed(policy_number) ==
    IF IsNone(policy_number) \/ Val(policy_number) = <<>>
    THEN ValidationResult("Completeness Check", "FAIL", <<"Policy number is missing.">>)
    ELSE ValidationResult("Completeness Check", "PASS", <<"Policy number is present.">>)

validate_policy_number(policy_number) ==
    IF IsNone(policy_number) \/ strip(Val(policy_number)) = <<>>
    THEN ValidationResult("Completeness Check", "FAIL", <<"Policy number is missing.">>)
    ELSE ValidationResult("Completeness Check", "PASS", <<"Policy number is present.">>)

\* variant: the rules after the first FAIL are skipped
validate_all_short_circuit(self_valid_vessels, extracted_data) ==
    LET d == validate_date_consistency(extracted_data.policy_start_date,
                                       extracted_data.policy_end_date)
        v == validate_insured_value(extracted_data.insured_value)
        n == validate_vessel_name(self_valid_vessels, extracted_data.vessel_name)
        p == validate_policy_number(extracted_data.policy_number)
    IN IF d.status = "FAIL" THEN <<d>>
       ELSE IF v.status = "FAIL" THEN <<d, v>>
       ELSE IF n.status = "FAIL" THEN <<d, v, n>>
       ELSE <<d, v, n, p>>

\* variant: the completeness rule is handed the vessel name
validate_all_wrong_field(self_valid_vessels, extracted_data) ==
    <<validate_date_consistency(extracted_data.policy_start_date,
                                extracted_data.policy_end_date),
      validate_insured_value(extracted_data.insured_value),
      validate_vessel_name(self_valid_vessels, extracted_data.vessel_name),
      validate_policy_number(extracted_data.vessel_name)>>

validate_all(self_valid_vessels, extracted_data) ==
    LET r0 == <<>>
        r1 == Append(r0, validate_date_consistency(extracted_data.policy_start_date,
                                                   extracted_data.policy_end_date))
        r2 == Append(r1, validate_insured_value(extracted_data.insured_value))
        r3 == Append(r2, validate_vessel_name(self_valid_vessels,
                                              extracted_data.vessel_name))
        r4 == Append(r3, validate_policy_number(extracted_data.policy_number))
    IN r4

\* variant: a name that was looked up is remembered in the approved list
validate_all_self_learns(self_valid_vessels, extracted_data) ==
    IF IsNone(extracted_data.vessel_name)
       \/ InList(Val(extracted_data.vessel_name), self_valid_vessels)
    THEN self_valid_vessels
    ELSE Append(self_valid_vessels, Val(extracted_data.vessel_name))

\* variant: a call trims the entries of the approved list in place
validate_all_self_trims(self_valid_vessels, extracted_data) ==
    [k \in 1..Len(self_valid_vessels) |-> strip(self_valid_vessels[k])]

\* the attributes of self after a rule method or validate_all has run: no method
\* of DocumentValidator assigns to self outside __init__
validate_all_self(self_valid_vessels, extracted_data) == self_valid_vessels

----------------------------------------------------------------------------
(* The validator called directly, as test_comprehensive.py does *)

AllPassRecord ==
    [policy_number |-> Some(<<"A">>),
     vessel_name |-> Some(<<"A">>),
     policy_start_date |-> Some(Date(2025, 1, 1)),
     policy_end_date |-> Some(Date(2025, 12, 31)),
     insured_value |-> Some(5000000)]

AllFailRecord ==
    [policy_number |-> None,
     vessel_name |-> Some(<<"a">>),
     policy_start_date |-> Some(Date(2025, 12, 31)),
     policy_end_date |-> Some(Date(2025, 1, 1)),
     insured_value |-> Some(-500)]

EqualDatesRecord ==
    [AllPassRecord EXCEPT !.policy_end_date = Some(Date(2025, 1, 1))]

\* the records of the validate_all calls made between two calls on `record`
OtherRecords == {AllPassRecord, AllFailRecord, EqualDatesRecord}

IdleRequest ==
    [pc |-> "idle",
     document_text |-> <<>>,
     ai_outcome |-> "none",
     ai_extracted |-> None,
     extracted_data |-> None,
     validation_results |-> <<>>,
     status |-> 0,
     detail |-> "",
     n_extract |-> 0,
     n_validate |-> 0]

ReqIds == 1..NumRequests

\* a validator constructed from a well-formed vessels file; no request is served
RulesInit ==
    /\ api_key = TRUE
    /\ valid_vessels \in VesselLists
    /\ vessels_file = [kind |-> "array", content |-> valid_vessels]
    /\ started = TRUE
    /\ ai_extractor = "ready"
    /\ document_validator = "ready"
    /\ load_count = 1
    /\ req = [i \in ReqIds |-> IdleRequest]
    /\ health = "none"
    /\ record \in Records
    /\ call = [op |-> "none", arg |-> record, again |-> FALSE]
    /\ ret = <<>>
    /\ first = <<>>
    /\ between = FALSE

call_validate_date_consistency ==
    /\ call' = [op |-> "validate_date_consistency", arg |-> record, again |-> FALSE]
    /\ ret' = <<validate_date_consistency(record.policy_start_date,
                                          record.policy_end_date)>>
    /\ valid_vessels' = validate_all_self(valid_vessels, record)
    /\ UNCHANGED <<service_vars, document_validator, record, first, between>>

call_validate_insured_value ==
    /\ call' = [op |-> "validate_insured_value", arg |-> record, again |-> FALSE]
    /\ ret' = <<validate_insured_value(record.insured_value)>>
    /\ valid_vessels' = validate_all_self(valid_vessels, record)
    /\ UNCHANGED <<service_vars, document_validator, record, first, between>>

call_validate_vessel_name ==
    /\ call' = [op |-> "validate_vessel_name", arg |-> record, again |-> FALSE]
    /\ ret' = <<validate_vessel_name(valid_vessels, record.vessel_name)>>
    /\ valid_vessels' = validate_all_self(valid_vessels, record)
    /\ UNCHANGED <<service_vars, document_validator, record, first, between>>

call_validate_policy_number ==
    /\ call' = [op |-> "validate_policy_number", arg |-> record, again |-> FALSE]
    /\ ret' = <<validate_policy_number(record.policy_number)>>
    /\ valid_vessels' = validate_all_self(valid_vessels, record)
    /\ UNCHANGED <<service_vars, document_validator, record, first, between>>

\* validate_all on `record`; the first report is kept for comparison
call_validate_all ==
    /\ call' = [op |-> "validate_all", arg |-> record, again |-> first # <<>>]
    /\ ret' = validate_all(valid_vessels, record)
    /\ first' = IF first = <<>> THEN ret' ELSE first
    /\ valid_vessels' = validate_all_self(valid_vessels, record)
    /\ UNCHANGED <<service_vars, document_validator, record, between>>

\* validate_all on another record
call_validate_all_other ==
    \E other \in OtherRecords :
        /\ other # record
        /\ call' = [op |-> "validate_all", arg |-> other, again |-> FALSE]
        /\ ret' = validate_all(valid_vessels, other)
        /\ between' = (between \/ first # <<>>)
        /\ valid_vessels' = validate_all_self(valid_vessels, other)
        /\ UNCHANGED <<service_vars, document_validator, record, first>>

RulesNext ==
    \/ call_validate_date_consistency
    \/ call_validate_insured_value
    \/ call_validate_vessel_name
    \/ call_validate_policy_number
    \/ call_validate_all
    \/ call_validate_all_other

SpecRules == RulesInit /\ [][RulesNext]_vars

----------------------------------------------------------------------------
(* date.fromisoformat, as main.py uses it on the extracted date strings *)

Digits == {"0", "1", "2", "3", "4", "5", "6", "7", "8", "9"}

DigitVal(c) ==
    CASE c = "0" -> 0 [] c = "1" -> 1 [] c = "2" -> 2 [] c = "3" -> 3
      [] c = "4" -> 4 [] c = "5" -> 5 [] c = "6" -> 6 [] c = "7" -> 7
      [] c = "8" -> 8 [] c = "9" -> 9

IsLeap(y) == y % 4 = 0 /\ (y % 100 # 0 \/ y % 400 = 0)

DaysInMonth(y, m) ==
    IF m = 2 THEN (IF IsLeap(y) THEN 29 ELSE 28)
    ELSE IF m \in {4, 6, 9, 11} THEN 30
    ELSE 31

\* the YYYY-MM-DD shape; every string drawn here is either of this shape or one
\* that no version of fromisoformat accepts
IsoShape(s) ==
    /\ Len(s) = 10
    /\ s[5] = "-"
    /\ s[8] = "-"
    /\ \A i \in {1, 2, 3, 4, 6, 7, 9, 10} : s[i] \in Digits

IsoYear(s) ==
    1000 * DigitVal(s[1]) + 100 * DigitVal(s[2]) + 10 * DigitVal(s[3]) + DigitVal(s[4])
IsoMonth(s) == 10 * DigitVal(s[6]) + DigitVal(s[7])
IsoDay(s) == 10 * DigitVal(s[9]) + DigitVal(s[10])

\* date.fromisoformat(s): Some(date), or None when it raises ValueError
fromisoformat(s) ==
    IF /\ IsoShape(s)
       /\ IsoYear(s) >= 1
       /\ IsoMonth(s) \in 1..12
       /\ IsoDay(s) >= 1
       /\ IsoDay(s) <= DaysInMonth(IsoYear(s), IsoMonth(s))
    THEN Some(Date(IsoYear(s), IsoMonth(s), IsoDay(s)))
    ELSE None

\* main.py:95-108: an absent or empty string is skipped, a string that does not
\* parse leaves the date None
parse_date(field) ==
    IF IsNone(field) \/ Val(field) = <<>> THEN None
    ELSE fromisoformat(Val(field))

----------------------------------------------------------------------------
(* What the inference capability may answer *)

D20250101 == <<"2", "0", "2", "5", "-", "0", "1", "-", "0", "1">>
D20251231 == <<"2", "0", "2", "5", "-", "1", "2", "-", "3", "1">>
D20250230 == <<"2", "0", "2", "5", "-", "0", "2", "-", "3", "0">>
DJan1 == <<"J", "a", "n", " ", "1">>

AIExtractedData(p, v, s, e, i) ==
    [policy_number |-> p, vessel_name |-> v, policy_start_date |-> s,
     policy_end_date |-> e, insured_value |-> i]

\* AIExtractedData (ai_extractor.py:11-28) values response.parsed may hold
AIOutputs ==
    { AIExtractedData(Some(<<"A">>), Some(<<"A">>), Some(D20250101), Some(D20251231),
                      Some(5000000)),
      AIExtractedData(None, Some(<<"a">>), Some(D20251231), Some(D20250101), Some(-500)),
      AIExtractedData(Some(<<"A">>), Some(<<"A">>), Some(D20250101), Some(D20250101),
                      Some(5000000)),
      AIExtractedData(Some(<<"A">>), Some(<<"A">>), Some(D20250230), Some(D20251231),
                      Some(1)),
      AIExtractedData(Some(<<" ">>), Some(<<" ", "A">>), Some(D20250101), Some(DJan1),
                      Some(0)),
      AIExtractedData(Some(<<"A">>), None, Some(<<>>), Some(D20251231), None),
      AIExtractedData(None, None, None, None, None) }

\* how extract_data_sync ends: generate_content raises (wrapped and re-raised at
\* ai_extractor.py:119-120), response.parsed is None because the output does not
\* fit the schema, or response.parsed is an AIExtractedData
AIOutcomes ==
    {[kind |-> "raise", parsed |-> None], [kind |-> "unparsed", parsed |-> None]}
    \cup {[kind |-> "ok", parsed |-> Some(o)] : o \in AIOutputs}

\* document_text of a request: empty, whitespace only, or text
DocumentTexts == {<<>>, <<" ">>, <<"A">>}

----------------------------------------------------------------------------
(* Module initialisation of main.py *)

VesselFiles ==
    { [kind |-> "missing", content |-> <<>>],
      [kind |-> "invalid_json", content |-> <<>>],
      [kind |-> "not_array", content |-> <<>>] }
    \cup {[kind |-> "array", content |-> l] : l \in VesselLists}

\* AIExtractor.__init__: the exception it raises, "none" when it returns
AIExtractor_init(key) == IF key THEN "none" ELSE "ValueError"

\* _load_valid_vessels: the exception it raises, "none" when it returns the list
load_valid_vessels_raises(file) ==
    CASE file.kind = "missing" -> "FileNotFoundError"
      [] file.kind = "invalid_json" -> "JSONDecodeError"
      [] file.kind = "not_array" -> "ValueError"
      [] file.kind = "array" -> "none"

\* json.JSONDecodeError is a subclass of ValueError
IsValueError(exc) == exc \in {"ValueError", "JSONDecodeError"}

Init ==
    /\ api_key \in BOOLEAN
    /\ vessels_file \in VesselFiles
    /\ started = FALSE
    /\ ai_extractor = "unset"
    /\ document_validator = "unset"
    /\ valid_vessels = <<>>
    /\ load_count = 0
    /\ req = [i \in ReqIds |-> IdleRequest]
    /\ health = "none"
    /\ record = AllPassRecord
    /\ call = [op |-> "none", arg |-> record, again |-> FALSE]
    /\ ret = <<>>
    /\ first = <<>>
    /\ between = FALSE

rules_vars == <<record, call, ret, first, between>>

\* main.py:29-39
initialize_services ==
    /\ ~started
    /\ started' = TRUE
    /\ LET e1 == AIExtractor_init(api_key)
           e2 == load_valid_vessels_raises(vessels_file)
       IN IF e1 # "none"
          THEN \* AIExtractor() raised ValueError: DocumentValidator() is not reached
               /\ ai_extractor' = "None"
               /\ document_validator' = "None"
               /\ UNCHANGED <<valid_vessels, load_count>>
          ELSE /\ load_count' = load_count + 1
               /\ IF e2 = "none"
                  THEN /\ ai_extractor' = "ready"
                       /\ document_validator' = "ready"
                       /\ valid_vessels' = vessels_file.content
                  ELSE IF IsValueError(e2)
                  THEN /\ ai_extractor' = "None"
                       /\ document_validator' = "None"
                       /\ UNCHANGED valid_vessels
                  ELSE \* FileNotFoundError
                       /\ ai_extractor' = "ready"
                       /\ document_validator' = "None"
                       /\ UNCHANGED valid_vessels
    /\ UNCHANGED <<api_key, vessels_file, req, health, rules_vars>>

----------------------------------------------------------------------------
(* POST /validate *)

Respond(r, code, text) == [r EXCEPT !.pc = "done", !.status = code, !.detail = text]

\* variant: no min_length on document_text
document_text_valid_any(text) == Len(text) >= 0

\* DocumentRequest.document_text has min_length=1 (models.py:16-18)
document_text_valid(text) == Len(text) >= 1

\* FastAPI builds the DocumentRequest before it calls validate_document: a body
\* that fails the model's validation is answered 422 and the handler is not run
receive_request(i) ==
    /\ started
    /\ req[i].pc = "idle"
    /\ \E text \in DocumentTexts :
        req' = [req EXCEPT ![i] =
                  IF document_text_valid(text)
                  THEN [@ EXCEPT !.pc = "handler", !.document_text = text]
                  ELSE Respond([@ EXCEPT !.document_text = text], 422,
                               "validation error")]
    /\ UNCHANGED <<api_key, vessels_file, started, ai_extractor, document_validator,
                   valid_vessels, load_count, health, rules_vars>>

\* variant: the validator is not checked before the extraction
check_services_extractor_only(i) ==
    /\ req[i].pc = "handler"
    /\ req' = [req EXCEPT ![i] =
                 IF ai_extractor = "None"
                 THEN Respond(@, 503, "AI service not available")
                 ELSE [@ EXCEPT !.pc = "extract"]]
    /\ UNCHANGED <<api_key, vessels_file, started, ai_extractor, document_validator,
                   valid_vessels, load_count, health, rules_vars>>

\* main.py:76-87
check_services(i) ==
    /\ req[i].pc = "handler"
    /\ req' = [req EXCEPT ![i] =
                 IF ai_extractor = "None"
                 THEN Respond(@, 503, "AI service not available")
                 ELSE IF document_validator = "None"
                 THEN Respond(@, 503, "Validation service not available")
                 ELSE [@ EXCEPT !.pc = "extract"]]
    /\ UNCHANGED <<api_key, vessels_file, started, ai_extractor, document_validator,
                   valid_vessels, load_count, health, rules_vars>>

\* main.py:110-116
ExtractedData(ai_extracted) ==
    [policy_number |-> ai_extracted.policy_number,
     vessel_name |-> ai_extracted.vessel_name,
     policy_start_date |-> parse_date(ai_extracted.policy_start_date),
     policy_end_date |-> parse_date(ai_extracted.policy_end_date),
     insured_value |-> ai_extracted.insured_value]

\* variant: a failed extraction is swallowed and an empty record is validated
extract_step_swallows(r, outcome) ==
    [r EXCEPT !.pc = "validate",
              !.ai_outcome = outcome.kind,
              !.ai_extracted = outcome.parsed,
              !.extracted_data =
                  IF outcome.kind = "ok" THEN Some(ExtractedData(Val(outcome.parsed)))
                  ELSE Some([policy_number |-> None, vessel_name |-> None,
                             policy_start_date |-> None, policy_end_date |-> None,
                             insured_value |-> None])]

\* variant: a date string that does not parse aborts the request (the ValueError
\* of fromisoformat reaches the except clause at line 118)
extract_step_date_aborts(r, outcome) ==
    IF /\ outcome.kind = "ok"
       /\ \A f \in {Val(outcome.parsed).policy_start_date,
                    Val(outcome.parsed).policy_end_date} :
             IsNone(f) \/ Val(f) = <<>> \/ ~IsNone(fromisoformat(Val(f)))
    THEN [r EXCEPT !.pc = "validate",
                   !.ai_outcome = outcome.kind,
                   !.ai_extracted = outcome.parsed,
                   !.extracted_data = Some(ExtractedData(Val(outcome.parsed)))]
    ELSE Respond([r EXCEPT !.ai_outcome = outcome.kind,
                           !.ai_extracted = outcome.parsed],
                 500, "AI extraction failed")

\* variant: a failed call is retried once before the request is failed
extract_step_retries(r, outcome) ==
    IF outcome.kind = "ok"
    THEN [r EXCEPT !.pc = "validate",
                   !.ai_outcome = outcome.kind,
                   !.ai_extracted = outcome.parsed,
                   !.extracted_data = Some(ExtractedData(Val(outcome.parsed)))]
    ELSE IF r.n_extract < 2
    THEN [r EXCEPT !.pc = "extract"]
    ELSE Respond([r EXCEPT !.ai_outcome = outcome.kind], 500, "AI extraction failed")

\* main.py:89-122: the request after the extraction step, given how the call
\* to extract_data_sync ended.  A raised exception, and the AttributeError of
\* reading a field of a None result, both reach the except clause at line 118.
extract_step(r, outcome) ==
    IF outcome.kind = "ok"
    THEN [r EXCEPT !.pc = "validate",
                   !.ai_outcome = outcome.kind,
                   !.ai_extracted = outcome.parsed,
                   !.extracted_data = Some(ExtractedData(Val(outcome.parsed)))]
    ELSE Respond([r EXCEPT !.ai_outcome = outcome.kind], 500, "AI extraction failed")

\* main.py:91 and ai_extractor.py:105-114: the one call to generate_content is
\* sent; no timeout is passed and the handler blocks until the call ends
extract_call(i) ==
    /\ req[i].pc = "extract"
    /\ req' = [req EXCEPT ![i] = [@ EXCEPT !.pc = "awaiting", !.n_extract = @ + 1]]
    /\ UNCHANGED <<api_key, vessels_file, started, ai_extractor, document_validator,
                   valid_vessels, load_count, health, rules_vars>>

\* the call ends, in one of the ways of AIOutcomes
extract(i) ==
    /\ req[i].pc = "awaiting"
    /\ \E outcome \in AIOutcomes :
        req' = [req EXCEPT ![i] = extract_step(@, outcome)]
    /\ UNCHANGED <<api_key, vessels_file, started, ai_extractor, document_validator,
                   valid_vessels, load_count, health, rules_vars>>

\* variant: a report holding a FAIL is answered as an error
validate_step_fail_is_error(r, self_valid_vessels) ==
    LET results == validate_all(self_valid_vessels, Val(r.extracted_data))
    IN IF \E k \in 1..Len(results) : results[k].status = "FAIL"
       THEN Respond([r EXCEPT !.n_validate = @ + 1], 500, "Validation failed")
       ELSE Respond([r EXCEPT !.validation_results = results, !.n_validate = @ + 1],
                    200, "")

\* main.py:124-137: validate_all raises for no ExtractedData, so the except
\* clause at line 127 is not taken and the response is the 200 of line 134
validate_step(r, self_valid_vessels) ==
    Respond([r EXCEPT !.validation_results =
                          validate_all(self_valid_vessels, Val(r.extracted_data)),
                      !.n_validate = @ + 1],
            200, "")

\* variant: the extracted record is kept in a module-level variable, so the
\* record validated and returned is the one any request extracted last
validate_shared_record(i) ==
    /\ req[i].pc = "validate"
    /\ \E j \in ReqIds :
          /\ ~IsNone(req[j].extracted_data)
          /\ req' = [req EXCEPT ![i] =
                       validate_step([@ EXCEPT !.extracted_data = req[j].extracted_data],
                                     valid_vessels)]
    /\ valid_vessels' = validate_all_self(valid_vessels, Val(req[i].extracted_data))
    /\ UNCHANGED <<api_key, vessels_file, started, ai_extractor, document_validator,
                   load_count, health, rules_vars>>

validate(i) ==
    /\ req[i].pc = "validate"
    /\ req' = [req EXCEPT ![i] = validate_step(@, valid_vessels)]
    /\ valid_vessels' = validate_all_self(valid_vessels, Val(req[i].extracted_data))
    /\ UNCHANGED <<api_key, vessels_file, started, ai_extractor, document_validator,
                   load_count, health, rules_vars>>

\* main.py:44-51: the health check answers whatever the services are
root ==
    /\ started
    /\ health' = "running"
    /\ UNCHANGED <<api_key, vessels_file, started, ai_extractor, document_validator,
                   valid_vessels, load_count, req, rules_vars>>

Next ==
    \/ initialize_services
    \/ root
    \/ \E i \in ReqIds : receive_request(i)
    \/ \E i \in ReqIds : check_services(i)
    \/ \E i \in ReqIds : extract_call(i)
    \/ \E i \in ReqIds : extract(i)
    \/ \E i \in ReqIds : validate(i)

Spec == Init /\ [][Next]_vars

\* the steps the server itself takes are taken when they can be; when, and
\* whether, the inference capability answers a call (extract) is not the
\* program's to decide, nor is the arrival of requests
Fairness ==
    /\ WF_vars(initialize_services)
    /\ \A i \in ReqIds :
          /\ WF_vars(check_services(i))
          /\ WF_vars(extract_call(i))
          /\ WF_vars(validate(i))

FairSpec == Init /\ [][Next]_vars /\ Fairness

----------------------------------------------------------------------------
(* Properties of the rules, checked under SpecRules *)

\* days since an epoch in a calendar of 31-day months: orders dates as the
\* calendar does
DayNumber(d) == (d.year * 12 + d.month) * 31 + d.day

\* some character of s is not whitespace
HasText(s) == \E k \in 1..Len(s) : s[k] \notin Whitespace

Statuses == {"PASS", "FAIL"}

Called(op) == call.op = op

\* C1: validate_date_consistency returns PASS if and only if both dates are
\* present and the end date is strictly later than the start date; an absent
\* date, equal dates and an earlier end date all return FAIL.
C1_DateConsistency ==
    Called("validate_date_consistency") =>
        LET s == call.arg.policy_start_date
            e == call.arg.policy_end_date
        IN /\ Len(ret) = 1
           /\ ret[1].rule = "Date Consistency"
           /\ ret[1].status \in Statuses
           /\ ret[1].status = "PASS" <=>
                 (/\ ~IsNone(s)
                  /\ ~IsNone(e)
                  /\ DayNumber(Val(e)) > DayNumber(Val(s)))

\* equal dates were checked and failed
C1_Witness ==
    /\ Called("validate_date_consistency")
    /\ call.arg.policy_start_date = Some(Date(2025, 1, 1))
    /\ call.arg.policy_end_date = Some(Date(2025, 1, 1))
    /\ ret[1].status = "FAIL"

\* C2: validate_insured_value returns PASS if and only if the value is present
\* and greater than zero; absent, zero and negative values return FAIL.
C2_InsuredValue ==
    Called("validate_insured_value") =>
        LET v == call.arg.insured_value
        IN /\ Len(ret) = 1
           /\ ret[1].rule = "Value Check"
           /\ ret[1].status \in Statuses
           /\ ret[1].status = "PASS" <=> (~IsNone(v) /\ Val(v) > 0)

\* zero was checked and failed
C2_Witness ==
    /\ Called("validate_insured_value")
    /\ call.arg.insured_value = Some(0)
    /\ ret[1].status = "FAIL"

\* C3: validate_vessel_name returns PASS if and only if the name is present,
\* holds a non-whitespace character, and is itself (untrimmed, same case) an
\* entry of the approved list.
C3_VesselName ==
    Called("validate_vessel_name") =>
        LET n == call.arg.vessel_name
        IN /\ Len(ret) = 1
           /\ ret[1].rule = "Vessel Name Match"
           /\ ret[1].status \in Statuses
           /\ ret[1].status = "PASS" <=>
                 (/\ ~IsNone(n)
                  /\ HasText(Val(n))
                  /\ \E k \in DOMAIN valid_vessels : valid_vessels[k] = Val(n))

\* an approved name with a leading blank was checked and failed
C3_Witness ==
    /\ Called("validate_vessel_name")
    /\ call.arg.vessel_name = Some(<<" ", "A">>)
    /\ \E k \in DOMAIN valid_vessels : valid_vessels[k] = <<"A">>
    /\ ret[1].status = "FAIL"

\* C4: validate_policy_number returns PASS if and only if the policy number is
\* present and holds a non-whitespace character; absent, empty and
\* whitespace-only policy numbers return FAIL.
C4_PolicyNumber ==
    Called("validate_policy_number") =>
        LET p == call.arg.policy_number
        IN /\ Len(ret) = 1
           /\ ret[1].rule = "Completeness Check"
           /\ ret[1].status \in Statuses
           /\ ret[1].status = "PASS" <=> (~IsNone(p) /\ HasText(Val(p)))

\* a whitespace-only policy number was checked and failed
C4_Witness ==
    /\ Called("validate_policy_number")
    /\ call.arg.policy_number = Some(<<" ">>)
    /\ ret[1].status = "FAIL"

RuleOrder ==
    <<"Date Consistency", "Value Check", "Vessel Name Match", "Completeness Check">>

\* C5: validate_all returns exactly four outcomes, in the order Date
\* Consistency, Value Check, Vessel Name Match, Completeness Check, each PASS
\* or FAIL, for every record; no rule is skipped after a FAIL.
C5_FourOutcomes ==
    Called("validate_all") =>
        /\ Len(ret) = 4
        /\ \A k \in 1..4 : ret[k].rule = RuleOrder[k] /\ ret[k].status \in Statuses

\* the first rule failed on a record without dates and the other three ran:
\* the last one passed
C5_Witness ==
    /\ Called("validate_all")
    /\ IsNone(call.arg.policy_start_date)
    /\ Len(ret) = 4
    /\ ret[1].status = "FAIL"
    /\ ret[2].status = "FAIL"
    /\ ret[4].status = "PASS"

\* the records a and b agree on the fields rule k reads
Agree(k, a, b) ==
    CASE k = 1 -> /\ a.policy_start_date = b.policy_start_date
                  /\ a.policy_end_date = b.policy_end_date
      [] k = 2 -> a.insured_value = b.insured_value
      [] k = 3 -> a.vessel_name = b.vessel_name
      [] k = 4 -> a.policy_number = b.policy_number

\* the PASS condition of rule k, stated on the record
Satisfies(k, r) ==
    CASE k = 1 -> /\ ~IsNone(r.policy_start_date)
                  /\ ~IsNone(r.policy_end_date)
                  /\ DayNumber(Val(r.policy_end_date)) > DayNumber(Val(r.policy_start_date))
      [] k = 2 -> ~IsNone(r.insured_value) /\ Val(r.insured_value) > 0
      [] k = 3 -> /\ ~IsNone(r.vessel_name)
                  /\ HasText(Val(r.vessel_name))
                  /\ \E j \in DOMAIN valid_vessels : valid_vessels[j] = Val(r.vessel_name)
      [] k = 4 -> ~IsNone(r.policy_number) /\ HasText(Val(r.policy_number))

\* the position in the report of the rule a single-rule call evaluates
RuleIndex(op) ==
    CASE op = "validate_date_consistency" -> 1
      [] op = "validate_insured_value" -> 2
      [] op = "validate_vessel_name" -> 3
      [] op = "validate_policy_number" -> 4

\* C6: each outcome of a validate_all report is the outcome of that rule
\* evaluated alone on the record's own fields, and two records that agree on
\* the fields a rule reads get the same outcome for it; a record meeting all
\* four PASS conditions gets four PASS, one violating all four gets four FAIL,
\* and equal dates get Date Consistency FAIL.
C6_RulesIndependent ==
    /\ (call.op \notin {"none", "validate_all"} /\ first # <<>>) =>
           /\ Len(first) = 4
           /\ ret[1] = first[RuleIndex(call.op)]
    /\ (Called("validate_all") /\ first # <<>>) =>
           /\ Len(first) = 4
           /\ Len(ret) = 4
           /\ \A k \in 1..4 : Agree(k, call.arg, record) => ret[k] = first[k]
    /\ Called("validate_all") =>
           /\ Len(ret) = 4
           /\ (\A k \in 1..4 : Satisfies(k, call.arg)) =>
                  \A k \in 1..4 : ret[k].status = "PASS"
           /\ (\A k \in 1..4 : ~Satisfies(k, call.arg)) =>
                  \A k \in 1..4 : ret[k].status = "FAIL"
           /\ (/\ ~IsNone(call.arg.policy_start_date)
               /\ call.arg.policy_start_date = call.arg.policy_end_date) =>
                  ret[1].status = "FAIL"

\* the equal-dates record was validated after a record that differs from it
\* in the end date only: the date outcome differs, the other three do not
C6_Witness ==
    /\ Called("validate_all")
    /\ call.arg = EqualDatesRecord
    /\ record = AllPassRecord
    /\ first # <<>>
    /\ first[1].status = "PASS"
    /\ ret[1].status = "FAIL"
    /\ \A k \in 2..4 : ret[k] = first[k] /\ ret[k].status = "PASS"

\* C7: validate_all evaluated again on the same record, against the same
\* approved list, returns the report of the first evaluation, whatever other
\* validate_all calls were made in between.
C7_Idempotent ==
    (Called("validate_all") /\ call.arg = record /\ first # <<>>) => ret = first

\* the record was validated a second time after a validate_all on another
\* record, and its report holds a FAIL for a name that is not approved
C7_Witness ==
    /\ Called("validate_all")
    /\ call.arg = record
    /\ call.again
    /\ between
    /\ ret = first
    /\ ~IsNone(record.vessel_name)
    /\ HasText(Val(record.vessel_name))
    /\ ret[3].status = "FAIL"

----------------------------------------------------------------------------
(* Properties of POST /validate, checked under Spec *)

\* C8: a request whose extraction succeeded (which needs both services
\* initialised) is validated and ends with a 200 response carrying the
\* extracted record and four outcomes, also when outcomes are FAIL.
C8_FailIsNotAnError ==
    \A i \in ReqIds :
        req[i].ai_outcome = "ok" =>
            /\ ai_extractor = "ready"
            /\ document_validator = "ready"
            /\ req[i].pc \in {"validate", "done"}
            /\ ~IsNone(req[i].extracted_data)
            /\ req[i].pc = "done" =>
                  /\ req[i].status = 200
                  /\ req[i].n_validate = 1
                  /\ Len(req[i].validation_results) = 4
                  /\ \A k \in 1..4 :
                        /\ req[i].validation_results[k].rule = RuleOrder[k]
                        /\ req[i].validation_results[k].status \in Statuses

\* a request was answered 200 with four FAIL outcomes
C8_Witness ==
    \E i \in ReqIds :
        /\ req[i].pc = "done"
        /\ req[i].ai_outcome = "ok"
        /\ req[i].status = 200
        /\ Len(req[i].validation_results) = 4
        /\ \A k \in 1..4 : req[i].validation_results[k].status = "FAIL"

\* C9: a request whose extraction call failed (the call raised, or its output
\* did not fit the record schema) ends with a 5xx extraction failure, carries
\* no extracted record and no outcome, and no rule was evaluated for it.
C9_ExtractionFailure ==
    \A i \in ReqIds :
        req[i].ai_outcome \in {"raise", "unparsed"} =>
            /\ req[i].pc = "done"
            /\ req[i].status \in 500..599
            /\ req[i].detail = "AI extraction failed"
            /\ IsNone(req[i].extracted_data)
            /\ req[i].validation_results = <<>>
            /\ req[i].n_validate = 0

\* one request failed on output that did not fit the schema, another on a
\* raised exception
C9_Witness ==
    \E i, j \in ReqIds :
        /\ req[i].ai_outcome = "unparsed"
        /\ req[j].ai_outcome = "raise"
        /\ req[i].pc = "done"
        /\ req[j].pc = "done"
        /\ req[i].status = 500

\* C10: a request with an empty document text is answered 4xx before the
\* handler runs: no extraction call and no rule evaluation is made for it.
C10_EmptyTextRejected ==
    \A i \in ReqIds :
        (req[i].pc # "idle" /\ req[i].document_text = <<>>) =>
            /\ req[i].pc = "done"
            /\ req[i].status \in 400..499
            /\ req[i].n_extract = 0
            /\ req[i].n_validate = 0
            /\ req[i].ai_outcome = "none"
            /\ IsNone(req[i].extracted_data)
            /\ req[i].validation_results = <<>>

\* an empty text was rejected while both services were ready and another
\* request, with text, was extracted
C10_Witness ==
    \E i, j \in ReqIds :
        /\ req[i].pc = "done"
        /\ req[i].document_text = <<>>
        /\ req[i].status = 422
        /\ ai_extractor = "ready"
        /\ document_validator = "ready"
        /\ req[j].n_extract = 1

\* the date strings drawn that are no calendar date: 30 February, and a date
\* that is not in ISO form
NotADate == {D20250230, DJan1}

\* the calendar date a date field of the extraction output stands for
DateOf(field) ==
    CASE field = Some(D20250101) -> Some(Date(2025, 1, 1))
      [] field = Some(D20251231) -> Some(Date(2025, 12, 31))
      [] OTHER -> None

BadDate(field) == ~IsNone(field) /\ Val(field) \in NotADate

\* C11: when the extraction output carries a start or end date string that is
\* no calendar date, that field is absent in the extracted record, the request
\* is not aborted, every other field keeps its extracted value, and the report
\* has Date Consistency FAIL and, for the other three rules, the outcomes their
\* own fields determine.
C11_BadDateIsAbsent ==
    \A i \in ReqIds :
        (/\ ~IsNone(req[i].ai_extracted)
         /\ \/ BadDate(Val(req[i].ai_extracted).policy_start_date)
            \/ BadDate(Val(req[i].ai_extracted).policy_end_date)) =>
            LET ai == Val(req[i].ai_extracted)
                e == Val(req[i].extracted_data)
                results == req[i].validation_results
            IN /\ req[i].pc \in {"validate", "done"}
               /\ ~IsNone(req[i].extracted_data)
               /\ e.policy_start_date = DateOf(ai.policy_start_date)
               /\ e.policy_end_date = DateOf(ai.policy_end_date)
               /\ e.policy_number = ai.policy_number
               /\ e.vessel_name = ai.vessel_name
               /\ e.insured_value = ai.insured_value
               /\ req[i].pc = "done" =>
                     /\ req[i].status = 200
                     /\ Len(results) = 4
                     /\ results[1].rule = "Date Consistency"
                     /\ results[1].status = "FAIL"
                     /\ \A k \in 2..4 :
                           /\ results[k].rule = RuleOrder[k]
                           /\ results[k].status = "PASS" <=> Satisfies(k, ai)

\* 30 February was extracted as the start date: the request was answered 200,
\* the end date and the other fields were kept and their rules passed
C11_Witness ==
    \E i \in ReqIds :
        /\ req[i].pc = "done"
        /\ ~IsNone(req[i].ai_extracted)
        /\ Val(req[i].ai_extracted).policy_start_date = Some(D20250230)
        /\ IsNone(Val(req[i].extracted_data).policy_start_date)
        /\ Val(req[i].extracted_data).policy_end_date = Some(Date(2025, 12, 31))
        /\ req[i].status = 200
        /\ req[i].validation_results[1].status = "FAIL"
        /\ \A k \in 2..4 : req[i].validation_results[k].status = "PASS"

\* the approved vessel set cannot be loaded: the file is missing or malformed
LoadFails == vessels_file.kind \in {"missing", "invalid_json", "not_array"}

\* C12 as stated: when the approved vessel set cannot be loaded, the service
\* never reaches a running state: the health check is never answered and no
\* request is accepted or answered.
C12_StartupAborted ==
    LoadFails =>
        /\ health = "none"
        /\ \A i \in ReqIds : req[i].pc = "idle"

\* C12 as amended: when the approved vessel set cannot be loaded, startup is
\* not aborted, but the started service has no validator and never produces a
\* report: a request is answered 503 (422 when its text is empty), with no
\* record and no outcome, and neither the extraction nor a rule is run for it.
C12_NoReportWithoutVessels ==
    (LoadFails /\ started) =>
        /\ document_validator = "None"
        /\ valid_vessels = <<>>
        /\ \A i \in ReqIds :
              /\ req[i].pc \in {"idle", "handler", "done"}
              /\ req[i].n_extract = 0
              /\ req[i].n_validate = 0
              /\ IsNone(req[i].extracted_data)
              /\ req[i].validation_results = <<>>
              /\ req[i].pc = "done" =>
                    req[i].status = IF req[i].document_text = <<>> THEN 422 ELSE 503

\* with an API key and no vessels file the service runs: the health check
\* answered "running" and a request was answered 503
C12_Witness ==
    /\ api_key
    /\ vessels_file.kind = "missing"
    /\ started
    /\ health = "running"
    /\ \E i \in ReqIds :
          /\ req[i].pc = "done"
          /\ req[i].status = 503
          /\ req[i].document_text # <<>>

\* C13: every validate request that reached the handler eventually ends in a
\* response, also when the inference capability never answers the call.
C13_RequestEnds ==
    \A i \in ReqIds : (req[i].pc = "handler") ~> (req[i].pc = "done")

\* C14: the inference capability is called at most once per request: a request
\* that ran the handler to its end made exactly one call when both services
\* were initialised and none otherwise, and a failed call ends the request
\* with no second call.
C14_OneExtractionCall ==
    \A i \in ReqIds :
        /\ req[i].n_extract \in {0, 1}
        /\ req[i].n_extract = 1 <=>
              (/\ req[i].pc \in {"awaiting", "validate", "done"}
               /\ req[i].status \notin {422, 503})
        /\ req[i].n_extract = 1 => ai_extractor = "ready" /\ document_validator = "ready"
        /\ (req[i].pc = "done" /\ req[i].document_text # <<>>) =>
              (req[i].n_extract = 1 <=>
                  (ai_extractor = "ready" /\ document_validator = "ready"))
        /\ req[i].ai_outcome \in {"raise", "unparsed"} =>
              req[i].pc = "done" /\ req[i].n_extract = 1

\* one request ended on a failed call after exactly one call, and another was
\* answered 200 after exactly one call
C14_Witness ==
    \E i, j \in ReqIds :
        /\ req[i].pc = "done"
        /\ req[i].ai_outcome = "raise"
        /\ req[i].status = 500
        /\ req[i].n_extract = 1
        /\ req[j].pc = "done"
        /\ req[j].status = 200
        /\ req[j].n_extract = 1

\* C15: the approved vessel list is loaded once, when the validator is
\* constructed, and no validation call changes it or loads it again: whenever
\* a validator exists, one load has run and the list is the content of the
\* vessels file.
C15_LoadedOnceReadOnly ==
    /\ load_count \in {0, 1}
    /\ document_validator = "ready" =>
          /\ load_count = 1
          /\ valid_vessels = vessels_file.content
    /\ document_validator # "ready" => valid_vessels = <<>>

\* two requests were validated against a list of three names, one of them
\* with a name that is not approved: the list is as loaded
C15_Witness ==
    /\ Len(valid_vessels) = 3
    /\ load_count = 1
    /\ \A i \in ReqIds : req[i].pc = "done" /\ req[i].n_validate = 1
    /\ \E i \in ReqIds :
          /\ Val(req[i].extracted_data).vessel_name = Some(<<"a">>)
          /\ req[i].validation_results[3].status = "FAIL"

\* the record a request running alone extracts from the output `ai`
OwnRecord(ai) ==
    [policy_number |-> ai.policy_number,
     vessel_name |-> ai.vessel_name,
     policy_start_date |-> DateOf(ai.policy_start_date),
     policy_end_date |-> DateOf(ai.policy_end_date),
     insured_value |-> ai.insured_value]

\* request i carries no record and no outcome
NoReport(i) == IsNone(req[i].extracted_data) /\ req[i].validation_results = <<>>

\* C16: whatever the interleaving of the requests, the response of each is
\* the one its own text and its own extraction output give against the
\* services as initialised: its own record and the four outcomes of that
\* record, or its own failure; nothing of another request appears in it.
C16_RequestsIsolated ==
    \A i \in ReqIds :
        /\ req[i].ai_outcome = "ok" =>
              req[i].extracted_data = Some(OwnRecord(Val(req[i].ai_extracted)))
        /\ req[i].pc = "done" =>
              IF req[i].document_text = <<>>
              THEN req[i].status = 422 /\ NoReport(i)
              ELSE IF ai_extractor = "None"
              THEN /\ req[i].status = 503
                   /\ req[i].detail = "AI service not available"
                   /\ NoReport(i)
              ELSE IF document_validator = "None"
              THEN /\ req[i].status = 503
                   /\ req[i].detail = "Validation service not available"
                   /\ NoReport(i)
              ELSE IF req[i].ai_outcome # "ok"
              THEN /\ req[i].status = 500
                   /\ req[i].detail = "AI extraction failed"
                   /\ NoReport(i)
              ELSE LET own == OwnRecord(Val(req[i].ai_extracted))
                       results == req[i].validation_results
                   IN /\ req[i].status = 200
                      /\ Len(results) = 4
                      /\ \A k \in 1..4 :
                            /\ results[k].rule = RuleOrder[k]
                            /\ results[k].status = "PASS" <=> Satisfies(k, own)
                      /\ (~IsNone(own.vessel_name) /\ HasText(Val(own.vessel_name))) =>
                            results[3].message[2] = Val(own.vessel_name)

\* a request was answered 200 with four PASS while another, holding a record
\* that fails every rule, was still waiting to be validated
C16_Witness ==
    \E i, j \in ReqIds :
        /\ i # j
        /\ req[i].pc = "done"
        /\ req[i].status = 200
        /\ \A k \in 1..4 : req[i].validation_results[k].status = "PASS"
        /\ req[j].pc = "validate"
        /\ \A k \in 1..4 : ~Satisfies(k, Val(req[j].extracted_data))

\* C17: a failure to load the approved vessel set never disables the
\* extraction service: after a startup with an API key and a vessels file that
\* is missing, invalid JSON or no JSON array, the extractor is initialised,
\* only the validator is unavailable, and a request that is refused is
\* refused with 'Validation service not available'.
C17_ExtractorSurvivesLoadFailure ==
    (started /\ api_key /\ LoadFails) =>
        /\ ai_extractor = "ready"
        /\ document_validator = "None"
        /\ \A i \in ReqIds :
              (req[i].pc = "done" /\ req[i].status = 503) =>
                  req[i].detail = "Validation service not available"

====
